---- MODULE Spec2Model ----
(***************************************************************************)
(* Batch import pipeline of geminilink-app (src/src/index.ts).             *)
(*                                                                         *)
(* Two snapshots of GET /api/admin/batch-import are modelled, each driven  *)
(* by the polling loop of its importer page:                               *)
(*   "V15"  CSV file in R2, cursor = batch number, planner v11;            *)
(*   "V18"  records API, cursor = offset token, planner v16.               *)
(* The third snapshot imports in the background and calls itself:          *)
(*   "V12"  CSV file in R2, handleBatchImport, uploads under waitUntil.    *)
(* A step of a handler is the code between two awaits.                     *)
(***************************************************************************)
EXTENDS Integers, Sequences, FiniteSets, TLC

(***************************************************************************)
(* Program constants and model bounds                                      *)
(***************************************************************************)
BATCH_SIZE == 3

\* longest source table
MaxRows == 4
\* clicks on the start button of the importer page
MaxClicks == 2
\* environment anomalies in one behaviour: a failing source read, store call,
\* image fetch or upload, or an off-nominal answer of the text service
MaxFaults == 1
\* anomalies in one behaviour of SpecImages, where only images fail
MaxImageFaults == 2
\* longest tag array handed to the planner in SpecPlanner
MaxTags == 2
MaxBack == 2

Variants == {"V15", "V18"}
Null == "null"
DEFAULT_SUPPLIER == "WEDO"
Vocabulary == {"Dog", "Cat", "Humans", "other"}

(***************************************************************************)
(* Generic helpers                                                         *)
(***************************************************************************)
Min(a, b) == IF a < b THEN a ELSE b
Max(a, b) == IF a > b THEN a ELSE b
CeilDiv(n, p) == (n + p - 1) \div p

CountIn(s, P(_)) == Cardinality({i \in 1..Len(s) : P(s[i])})

(***************************************************************************)
(* Source rows.  A row carries the columns the handlers read.  Text        *)
(* columns that are only passed through with || '' are represented by      *)
(* name and barcode.  "" stands for an empty or absent cell.               *)
(***************************************************************************)
\* the affirmative token of the stock column (a one-character CJK word in the
\* source, line 519)
YES == "yes"

ToyRow ==
    [sku |-> "A1", supplier |-> "", name |-> "Chew Toy", barcode |-> "",
     category |-> "Dog Toys", weight |-> <<"a", "b", "c">>,
     msrp |-> <<"$", "1", ",", "2", "0", "0">>, active |-> YES,
     invGood |-> <<"5">>, invDefective |-> <<>>,
     images |-> <<"https://x/img1", "", "https://x/img2">>, answer |-> "Dog"]

NoSkuRow ==
    [sku |-> "", supplier |-> "BokBok", name |-> "Orphan", barcode |-> "",
     category |-> "Misc", weight |-> <<"1", "0">>,
     msrp |-> <<"9", "9">>, active |-> "no",
     invGood |-> <<>>, invDefective |-> <<>>,
     images |-> <<"https://x/img9">>, answer |-> "other"]

CanRow ==
    [sku |-> "B2", supplier |-> "BokBok", name |-> "Cat Can", barcode |-> "471",
     category |-> "", weight |-> <<"8", "5">>,
     msrp |-> <<"$", "6", "0">>, active |-> YES,
     invGood |-> <<"1", "2">>, invDefective |-> <<"1">>,
     images |-> <<>>, answer |-> "Cat"]

\* a second row with the SKU of ToyRow and other column values
ToyRowAgain ==
    [sku |-> "A1", supplier |-> "BokBok", name |-> "Chew Toy XL", barcode |-> "",
     category |-> "Toys", weight |-> <<"2", "0">>,
     msrp |-> <<"x">>, active |-> "",
     invGood |-> <<"7">>, invDefective |-> <<>>,
     images |-> <<"https://x/img3">>, answer |-> "Dog"]

KeyRingRow ==
    [sku |-> "C3", supplier |-> "Bok Bok", name |-> "Key Ring", barcode |-> "",
     category |-> "Accessories", weight |-> <<>>,
     msrp |-> <<"1", "5", "0">>, active |-> YES,
     invGood |-> <<>>, invDefective |-> <<>>,
     images |-> <<"https://x/img4">>, answer |-> "Humans"]

Templates == <<ToyRow, NoSkuRow, CanRow, ToyRowAgain, KeyRingRow>>
CatalogStarts == {0, 1, 3}

\* the table of n rows that starts at template start and cycles
Catalog(start, n) ==
    [i \in 1..n |-> Templates[((start + i - 1) % Len(Templates)) + 1]]

(***************************************************************************)
(* Number parsing of the planner's bind() arguments                        *)
(***************************************************************************)
Digits == {"0", "1", "2", "3", "4", "5", "6", "7", "8", "9"}
DigitVal(c) ==
    CASE c = "0" -> 0 [] c = "1" -> 1 [] c = "2" -> 2 [] c = "3" -> 3
      [] c = "4" -> 4 [] c = "5" -> 5 [] c = "6" -> 6 [] c = "7" -> 7
      [] c = "8" -> 8 [] c = "9" -> 9

RECURSIVE DigitPrefix(_)
\* the longest prefix of decimal digits
DigitPrefix(cs) ==
    IF cs # <<>> /\ Head(cs) \in Digits
    THEN <<Head(cs)>> \o DigitPrefix(Tail(cs)) ELSE <<>>

RECURSIVE DecimalValue(_, _)
DecimalValue(ds, acc) ==
    IF ds = <<>> THEN acc ELSE DecimalValue(Tail(ds), acc * 10 + DigitVal(Head(ds)))

RECURSIVE RemoveFirst(_, _)
\* String.prototype.replace(c, ''): the first occurrence only
RemoveFirst(cs, c) ==
    IF cs = <<>> THEN <<>>
    ELSE IF Head(cs) = c THEN Tail(cs)
    ELSE <<Head(cs)>> \o RemoveFirst(Tail(cs), c)

\* parseInt(text) || 0 : sign, then the digit prefix; nothing parsed gives NaN
ParseIntOrZero(cs) ==
    LET neg  == cs # <<>> /\ Head(cs) = "-"
        body == IF cs # <<>> /\ Head(cs) \in {"-", "+"} THEN Tail(cs) ELSE cs
        ds   == DigitPrefix(body)
    IN  IF ds = <<>> THEN 0
        ELSE IF neg THEN 0 - DecimalValue(ds, 0) ELSE DecimalValue(ds, 0)

RECURSIVE StripTrailingZeros(_)
StripTrailingZeros(ds) ==
    IF ds # <<>> /\ ds[Len(ds)] = "0"
    THEN StripTrailingZeros(SubSeq(ds, 1, Len(ds) - 1)) ELSE ds

\* parseFloat(text) || 0 : digits, then an optional fraction; the value is kept
\* as its whole part and the digits of its fraction
ParseFloatOrZero(cs) ==
    LET neg   == cs # <<>> /\ Head(cs) = "-"
        body  == IF cs # <<>> /\ Head(cs) \in {"-", "+"} THEN Tail(cs) ELSE cs
        ds    == DigitPrefix(body)
        rest  == SubSeq(body, Len(ds) + 1, Len(body))
        fs    == IF rest # <<>> /\ Head(rest) = "." THEN DigitPrefix(Tail(rest)) ELSE <<>>
        whole == DecimalValue(ds, 0)
        frac  == StripTrailingZeros(fs)
    IN  IF ds = <<>> /\ fs = <<>> THEN [whole |-> 0, frac |-> <<>>]
        ELSE [whole |-> IF neg THEN 0 - whole ELSE whole, frac |-> frac]

(***************************************************************************)
(* The relational store (D1).  A table is the list of its rows.            *)
(***************************************************************************)
Tables == {"Suppliers", "Products", "ProductInventory", "ProductTags",
           "ProductAudience", "ProductImages"}

EmptyDb == [t \in Tables |-> <<>>]

\* the key columns of each table
PrimaryKey(table, row) ==
    CASE table = "Suppliers"        -> <<row.supplier_id>>
      [] table = "Products"         -> <<row.sku>>
      [] table = "ProductInventory" -> <<row.sku>>
      [] table = "ProductTags"      -> <<row.sku, row.tag>>
      [] table = "ProductAudience"  -> <<row.sku, row.audience_tag>>
      [] table = "ProductImages"    -> <<row.sku, row.r2_key>>

HasKey(db, table, key) ==
    \E i \in 1..Len(db[table]) : PrimaryKey(table, db[table][i]) = key

\* Products.supplier_id references Suppliers
ForeignKeyOk(db, table, row) ==
    table = "Products" => HasKey(db, "Suppliers", <<row.supplier_id>>)

\* datetime('now') is evaluated when the statement runs
Resolve(row, now) ==
    IF "last_synced_at" \in DOMAIN row THEN [row EXCEPT !.last_synced_at = now] ELSE row

ReplaceRow(rows, table, row) ==
    [i \in 1..Len(rows) |->
        IF PrimaryKey(table, rows[i]) = PrimaryKey(table, row) THEN row ELSE rows[i]]

\* one prepared statement run by the store: [ok, db]
ExecStmt(db, st, now) ==
    LET row == Resolve(st.row, now)
        key == PrimaryKey(st.table, row)
    IN  IF st.verb \notin {"INSERT", "INSERT OR IGNORE", "INSERT OR REPLACE"}
        THEN [ok |-> FALSE, db |-> db]
        ELSE IF ~ForeignKeyOk(db, st.table, row)
        THEN [ok |-> FALSE, db |-> db]
        ELSE IF HasKey(db, st.table, key)
        THEN CASE st.verb = "INSERT OR IGNORE"  -> [ok |-> TRUE, db |-> db]
               [] st.verb = "INSERT OR REPLACE" ->
                    [ok |-> TRUE,
                     db |-> [db EXCEPT ![st.table] = ReplaceRow(@, st.table, row)]]
               [] st.verb = "INSERT"            -> [ok |-> FALSE, db |-> db]
        ELSE [ok |-> TRUE, db |-> [db EXCEPT ![st.table] = Append(@, row)]]

RECURSIVE RunAll(_, _, _)
RunAll(db, stmts, now) ==
    IF stmts = <<>> THEN [ok |-> TRUE, db |-> db]
    ELSE LET r == ExecStmt(db, Head(stmts), now)
         IN  IF r.ok THEN RunAll(r.db, Tail(stmts), now) ELSE [ok |-> FALSE, db |-> db]

Batch_partial(db, stmts, now) == RunAll(db, stmts, now)

\* DB.batch(statements): all the statements or none
Batch(db, stmts, now) ==
    LET r == RunAll(db, stmts, now)
    IN  IF r.ok THEN r ELSE [ok |-> FALSE, db |-> db]

NoDuplicateKeys(db) ==
    \A t \in Tables : \A i, j \in 1..Len(db[t]) :
        PrimaryKey(t, db[t][i]) = PrimaryKey(t, db[t][j]) => i = j

(***************************************************************************)
(* Persistence planner                                                     *)
(***************************************************************************)
Stmt(verb, table, row) == [verb |-> verb, table |-> table, row |-> row]

ProductsStmt_replace(row, sku, supplierId) ==
    Stmt("INSERT OR REPLACE", "Products",
         [sku |-> sku,
          supplier_id |-> supplierId,
          name |-> row.name,
          barcode |-> IF row.barcode = "" THEN Null ELSE row.barcode,
          weight_g |-> ParseFloatOrZero(row.weight),
          msrp |-> ParseIntOrZero(RemoveFirst(row.msrp, "$")),
          is_public |-> 1,
          is_active_product |-> IF row.active = YES THEN 1 ELSE 0])

\* the Products insert of the planners (lines 495-521 and 1644-1670)
ProductsStmt(row, sku, supplierId) ==
    Stmt("INSERT OR IGNORE", "Products",
         [sku |-> sku,
          supplier_id |-> supplierId,
          name |-> row.name,
          barcode |-> IF row.barcode = "" THEN Null ELSE row.barcode,
          weight_g |-> ParseFloatOrZero(row.weight),
          msrp |-> ParseIntOrZero(RemoveFirst(row.msrp, "$")),
          is_public |-> 1,
          is_active_product |-> IF row.active = YES THEN 1 ELSE 0])

InventoryStmt_replace(row, sku) ==
    Stmt("INSERT OR REPLACE", "ProductInventory",
         [sku |-> sku,
          available_good |-> ParseIntOrZero(row.invGood),
          available_defective |-> ParseIntOrZero(row.invDefective),
          last_synced_at |-> "now"])

\* the ProductInventory insert of planner v11 (lines 524-535)
InventoryStmt_v11(row, sku) ==
    Stmt("INSERT OR IGNORE", "ProductInventory",
         [sku |-> sku,
          available_good |-> ParseIntOrZero(row.invGood),
          available_defective |-> ParseIntOrZero(row.invDefective),
          last_synced_at |-> "now"])

\* the ProductInventory insert of planner v16 (lines 1672-1683)
InventoryStmt_v16(row, sku) ==
    Stmt("INSERT OR IGNORE", "ProductInventory",
         [sku |-> sku, available_good |-> 0, available_defective |-> 0,
          last_synced_at |-> "now"])

TagStmts(row, sku) ==
    IF row.category # ""
    THEN <<Stmt("INSERT OR IGNORE", "ProductTags", [sku |-> sku, tag |-> row.category])>>
    ELSE <<>>

RECURSIVE AudienceStmts_all(_, _, _)
AudienceStmts_all(verb, sku, audienceTags) ==
    IF audienceTags = <<>> THEN <<>>
    ELSE <<Stmt(verb, "ProductAudience",
                [sku |-> sku, audience_tag |-> Head(audienceTags)])>>
         \o AudienceStmts_all(verb, sku, Tail(audienceTags))

RECURSIVE AudienceStmts(_, _, _)
\* one ProductAudience insert per truthy tag, written with the planner's verb
AudienceStmts(verb, sku, audienceTags) ==
    IF audienceTags = <<>> THEN <<>>
    ELSE (IF Head(audienceTags) # ""
          THEN <<Stmt(verb, "ProductAudience",
                      [sku |-> sku, audience_tag |-> Head(audienceTags)])>>
          ELSE <<>>)
         \o AudienceStmts(verb, sku, Tail(audienceTags))

getProductSqlStatements_v11_tagsFirst(row, sku, supplierId, audienceTags) ==
    TagStmts(row, sku)
    \o <<ProductsStmt(row, sku, supplierId), InventoryStmt_v11(row, sku)>>
    \o AudienceStmts("INSERT OR IGNORE", sku, audienceTags)

\* lines 485-550: Products, ProductInventory, ProductTags, ProductAudience
getProductSqlStatements_v11(row, sku, supplierId, audienceTags) ==
    <<ProductsStmt(row, sku, supplierId), InventoryStmt_v11(row, sku)>>
    \o TagStmts(row, sku)
    \o AudienceStmts("INSERT OR IGNORE", sku, audienceTags)

\* line 1691 spells the verb of the ProductAudience insert "INSERT OR IGGNORE"
getProductSqlStatements_v16(row, sku, supplierId, audienceTags) ==
    <<ProductsStmt(row, sku, supplierId), InventoryStmt_v16(row, sku)>>
    \o TagStmts(row, sku)
    \o AudienceStmts("INSERT OR IGGNORE", sku, audienceTags)

PlanRow(variant, row, sku, supplierId, audienceTags) ==
    IF variant = "V18"
    THEN getProductSqlStatements_v16(row, sku, supplierId, audienceTags)
    ELSE getProductSqlStatements_v11(row, sku, supplierId, audienceTags)

ImageStmt(sku, r2Key, isPrimary) ==
    Stmt("INSERT OR IGNORE", "ProductImages",
         [sku |-> sku, r2_key |-> r2Key, is_primary |-> isPrimary])

\* the blob key of line 173: supplierId/sku/image-(imageIndex + 1).jpg
R2Key(supplierId, sku, imageIndex) ==
    supplierId \o "/" \o sku \o "/image-" \o ToString(imageIndex + 1) \o ".jpg"

\* the URLs of the image column: cells that hold no URL yield none
parseImageUrls(cell) == SelectSeq(cell, LAMBDA u : u # "")

(***************************************************************************)
(* ensureSupplierExists                                                    *)
(***************************************************************************)
\* supplierId.toLowerCase().replace(/\s+/g, '')
LowerNoSpace(id) ==
    CASE id = "WEDO"    -> "wedo"
      [] id = "BokBok"  -> "bokbok"
      [] id = "Bok Bok" -> "bokbok"
      [] OTHER          -> id

SupplierInsert(supplierId) ==
    Stmt("INSERT", "Suppliers",
         [supplier_id |-> supplierId, name |-> supplierId,
          email |-> LowerNoSpace(supplierId) \o "@geminilink.auto"])

\* the SELECT of line 412
SupplierFound(db, supplierId) == HasKey(db, "Suppliers", <<supplierId>>)

\* the whole function when the store answers: [ok, db]
ensureSupplierExists(db, supplierId, now) ==
    IF SupplierFound(db, supplierId) THEN [ok |-> TRUE, db |-> db]
    ELSE ExecStmt(db, SupplierInsert(supplierId), now)

(***************************************************************************)
(* Audience classifier: the answer of the text service and its parsing.    *)
(* An answer is a thrown error or a text, a text a list of tokens.         *)
(***************************************************************************)
Tok(t, v) == [t |-> t, v |-> v]
Str(v)    == Tok("str", v)
LB        == Tok("[", "")
RB        == Tok("]", "")
Comma     == Tok(",", "")
FenceJson == Tok("fence-json", "")
Fence     == Tok("fence", "")
Space     == Tok(" ", "")

Thrown == [threw |-> TRUE, text |-> <<>>]
Text(ts) == [threw |-> FALSE, text |-> ts]

\* what the prompt asks for, fenced the way the service likes to answer
NominalAnswer(row) ==
    Text(<<FenceJson, Space, LB, Str(row.answer), RB, Space, Fence>>)

OddAnswers ==
    { Thrown,
      Text(<<Tok("word", "Sure"), LB, Str("Dog"), RB>>),
      Text(<<Tok("{", ""), Tok("}", "")>>),
      Text(<<Str("Dog")>>),
      Text(<<LB, RB>>),
      Text(<<LB, Str(""), Comma, Tok("null", ""), RB>>),
      Text(<<LB, Str("Fish"), RB>>),
      Text(<<LB, Str("Dog"), Comma, Str(""), Comma, Str("Cat"), RB>>) }

RECURSIVE Trim(_)
\* String.prototype.trim
Trim(ts) ==
    IF ts # <<>> /\ Head(ts) = Space THEN Trim(Tail(ts))
    ELSE IF ts # <<>> /\ ts[Len(ts)] = Space THEN Trim(SubSeq(ts, 1, Len(ts) - 1))
    ELSE ts

\* the cleaning of line 154: every code-fence marker removed, then trim()
CleanResponse(ts) == Trim(SelectSeq(Trim(ts), LAMBDA k : k \notin {FenceJson, Fence}))

Scalars == {"str", "null", "num"}

\* the elements of a bracketed list: values separated by commas
IsElementList(ts) ==
    /\ Len(ts) % 2 = 1
    /\ \A i \in 1..Len(ts) :
          IF i % 2 = 1 THEN ts[i].t \in Scalars ELSE ts[i] = Comma

\* JSON.parse: [ok, isArray, elems]; blanks between tokens are skipped
JSONParse(text) ==
    LET ts == SelectSeq(text, LAMBDA k : k # Space)
        inner == SubSeq(ts, 2, Len(ts) - 1)
    IN  IF Len(ts) = 1 /\ ts[1].t \in Scalars
        THEN [ok |-> TRUE, isArray |-> FALSE, elems |-> <<>>]
        ELSE IF ts = <<Tok("{", ""), Tok("}", "")>>
        THEN [ok |-> TRUE, isArray |-> FALSE, elems |-> <<>>]
        ELSE IF Len(ts) >= 2 /\ ts[1] = LB /\ ts[Len(ts)] = RB
                /\ (inner = <<>> \/ IsElementList(inner))
        THEN [ok |-> TRUE, isArray |-> TRUE,
              elems |-> SelectSeq(inner, LAMBDA k : k # Comma)]
        ELSE [ok |-> FALSE, isArray |-> FALSE, elems |-> <<>>]

\* Boolean(value) of a parsed element
Truthy(k) == k.t = "str" /\ k.v # ""

RECURSIVE Values(_)
Values(ks) == IF ks = <<>> THEN <<>> ELSE <<Head(ks).v>> \o Values(Tail(ks))

TagsOfParsed_noFallback(parsed) ==
    IF parsed.isArray THEN Values(SelectSeq(parsed.elems, Truthy)) ELSE <<>>

\* Array.isArray(parsed) ? parsed.filter(Boolean) : ['other']
TagsOfParsed(parsed) ==
    IF parsed.isArray THEN Values(SelectSeq(parsed.elems, Truthy)) ELSE <<"other">>

\* the exception, if any, that the classifier block raises inside its try
AiThrows(answer) == answer.threw \/ ~JSONParse(CleanResponse(answer.text)).ok

AiCaught_parseOnly(answer) == ~answer.threw

\* the try/catch of lines 151-159 catches every exception raised inside it
AiCaught(answer) == TRUE

AiCalls_retry(ai, call) ==
    IF call.answer.threw THEN ai \o <<call, call>> ELSE Append(ai, call)

\* line 152: one generateContent call for the row, in no loop
AiCalls(ai, call) == Append(ai, call)

\* audienceTags after the classifier block
AudienceTags(answer) ==
    IF AiThrows(answer) THEN <<"other">>
    ELSE TagsOfParsed(JSONParse(CleanResponse(answer.text)))

(***************************************************************************)
(* State                                                                   *)
(***************************************************************************)
VARIABLES
    variant,      \* which snapshot of the handler and page runs
    source,       \* the rows of the CSV file or of the records table
    supplierArg,  \* V18: the supplier id typed into the importer page
    db,           \* the relational store
    bucket,       \* the keys of the blobs in R2
    clock,        \* the store's datetime('now')
    faults,       \* anomalies of the environment so far
    ui,           \* the importer page
    h,            \* the locals of the handler invocation in progress
    resp,         \* the response of the last invocation
    hist,         \* what the run of the polling loop has fetched so far
    uploads,      \* V12: the image uploads handed to waitUntil
    peer,         \* a second invocation running at the same time
    tableArg      \* V18: the table_id parameter of the request, "" when missing

vars == <<variant, source, supplierArg, db, bucket, clock, faults, ui, h, resp, hist,
          uploads, peer, tableArg>>

\* null / undefined of a cursor, and the page's 'STOP' marker (line 1524)
NoCursor == 0
STOP == -1

NoResponse ==
    [kind |-> "none", status |-> 0, processed |-> 0, remaining |-> 0,
     next |-> NoCursor, logs |-> <<>>]

IdleHandler ==
    [pc |-> "idle", cursor |-> NoCursor, page |-> <<>>, first |-> 0, total |-> 0,
     newOffset |-> NoCursor, i |-> 0, sku |-> "", supplierId |-> "",
     urls |-> <<>>, imageIndex |-> 0, importLog |-> <<>>, dbStatements |-> <<>>,
     ai |-> <<>>, images |-> <<>>, ensured |-> {}, abandoned |-> {},
     faulted |-> FALSE, sent |-> <<>>, committed |-> <<>>, before |-> EmptyDb]

LogLine(type, sku, n, tags) == [type |-> type, sku |-> sku, n |-> n, tags |-> tags]

(***************************************************************************)
(* Page reads                                                              *)
(***************************************************************************)
\* Array.prototype.slice(a, b): [from, to] as 1-based bounds of the kept part
SliceFrom(n, a) == IF a < 0 THEN Max(n + a, 0) ELSE Min(a, n)
JsSlice(s, a, b) == SubSeq(s, SliceFrom(Len(s), a) + 1, SliceFrom(Len(s), b))

CsvOffset_fromOne(batchNumber) == batchNumber * BATCH_SIZE

\* V15, lines 101-116: the rows of batch batchNumber
CsvOffset(batchNumber) == (batchNumber - 1) * BATCH_SIZE
CsvPage(rows, batchNumber) ==
    JsSlice(rows, CsvOffset(batchNumber), CsvOffset(batchNumber) + BATCH_SIZE)

\* V18, lines 1167-1175: select({pageSize, offset}).firstPage() of the records
\* source; a token names the row the next page starts at, no token the start
TablePage(rows, token) ==
    LET from == IF token = NoCursor THEN 1 ELSE token
        to   == Min(from + BATCH_SIZE - 1, Len(rows))
    IN  [records |-> SubSeq(rows, from, to),
         offset  |-> IF to < Len(rows) THEN to + 1 ELSE NoCursor]

NextBatch_always(batchNumber, remaining) == batchNumber + 1

Remaining_wholePage(total, batchNumber, pageLen) == total - CsvOffset(batchNumber)

\* line 214: nextBatch: remaining > 0 ? nextBatch : null
NextBatch(batchNumber, remaining) ==
    IF remaining > 0 THEN batchNumber + 1 ELSE NoCursor

\* line 206
Remaining(total, batchNumber, pageLen) == total - (CsvOffset(batchNumber) + pageLen)

\* lines 209-217 and 1258-1264: the report of a page
Report(hh) ==
    IF variant = "V15"
    THEN [kind |-> "report", status |-> 200, processed |-> Len(hh.page),
          remaining |-> Remaining(hh.total, hh.cursor, Len(hh.page)),
          next |-> NextBatch(hh.cursor, Remaining(hh.total, hh.cursor, Len(hh.page))),
          logs |-> hh.importLog]
    ELSE [kind |-> "report", status |-> 200, processed |-> Len(hh.page),
          remaining |-> 0, next |-> hh.newOffset, logs |-> hh.importLog]

\* lines 118-125 and 1177-1184: the answer to an empty page
Completed ==
    [kind |-> "complete", status |-> 200, processed |-> 0, remaining |-> 0,
     next |-> NoCursor, logs |-> <<>>]

\* lines 218-220 and 1265-1267 (500), line 106 (404)
ErrorResponse(status) ==
    [kind |-> "error", status |-> status, processed |-> 0, remaining |-> 0,
     next |-> NoCursor, logs |-> <<>>]

(***************************************************************************)
(* The row loop between awaits                                             *)
(***************************************************************************)
\* the first row at or after position i of the page that has a SKU, or 0
NextWithSku(page, i) ==
    IF \E j \in i..Len(page) : page[j].sku # ""
    THEN CHOOSE j \in i..Len(page) :
            page[j].sku # "" /\ \A k \in i..(j - 1) : page[k].sku = ""
    ELSE 0

\* lines 132-133 and 1160: the supplier of a row
SupplierOf(row) ==
    IF variant = "V18"
    THEN supplierArg
    ELSE (IF row.supplier # "" THEN row.supplier ELSE DEFAULT_SUPPLIER)

ShouldCommit_always(dbStatements) == TRUE

\* lines 198 and 1249: dbStatements.length > 0
ShouldCommit(dbStatements) == dbStatements # <<>>

\* The loop from position i of the page up to its next await: rows without a
\* SKU are passed over, the next row with one calls ensureSupplierExists; after
\* the last row the batch is committed or, when it is empty, reported at once.
\* [h, resp]
LoopFrom(hh, i) ==
    LET j == NextWithSku(hh.page, i)
    IN  IF j # 0
        THEN [h |-> [hh EXCEPT !.pc = "select", !.i = j, !.sku = hh.page[j].sku,
                               !.supplierId = SupplierOf(hh.page[j]),
                               !.ensured = @ \cup {j},
                               !.urls = <<>>, !.imageIndex = 0],
              resp |-> NoResponse]
        ELSE IF ShouldCommit(hh.dbStatements)
        THEN [h |-> [hh EXCEPT !.pc = "commit", !.i = 0,
                               !.sent = Append(@, hh.dbStatements)],
              resp |-> NoResponse]
        ELSE LET done == [hh EXCEPT !.pc = "done", !.i = 0,
                                    !.importLog = Append(@, LogLine("warning", "", 0, <<>>))]
             IN  [h |-> done, resp |-> Report(done)]

Abort_refetch(hh, status) ==
    [h |-> [hh EXCEPT !.pc = "fetch"], resp |-> NoResponse]

\* the handler ends in its outer catch
Abort(hh, status) ==
    [h |-> [hh EXCEPT !.pc = "done"], resp |-> ErrorResponse(status)]

(***************************************************************************)
(* Initial state                                                           *)
(***************************************************************************)
SupplierArgs == {"BokBok"}
TABLE_ID == "tblProducts"

NoInvocation == [kind |-> "none", cursor |-> NoCursor, faulted |-> FALSE]

\* no second invocation has run
NoPeer ==
    [ran |-> FALSE, cursor |-> NoCursor, at |-> 0, pc |-> "idle", i |-> 0,
     stmts |-> <<>>, abandoned |-> {}]

FreshHistory ==
    [calls |-> 0, pages |-> 0, fetched |-> [i \in 1..Len(source) |-> 0],
     prev |-> NoInvocation]

Init ==
    /\ variant \in Variants
    /\ source \in {Catalog(s, n) : s \in CatalogStarts, n \in 0..MaxRows}
    /\ supplierArg \in (IF variant = "V18" THEN SupplierArgs ELSE {""})
    /\ db = EmptyDb
    /\ bucket = {}
    /\ clock = 0
    /\ faults = 0
    /\ ui = [disabled |-> FALSE, status |-> "idle", pc |-> "idle",
             arg |-> NoCursor, clicks |-> 0]
    /\ h = IdleHandler
    /\ resp = NoResponse
    /\ hist = FreshHistory
    /\ uploads = {}
    /\ peer = NoPeer
    /\ tableArg = (IF variant = "V18" THEN TABLE_ID ELSE "")

(***************************************************************************)
(* The importer page (lines 330-386 and 1453-1537)                         *)
(***************************************************************************)
StartCursor_resume ==
    IF h.pc = "done" /\ resp.kind = "error" THEN h.cursor
    ELSE (IF variant = "V15" THEN 1 ELSE NoCursor)

\* the cursor of the first request: runBatch(1), runBatch(..., null)
StartCursor == IF variant = "V15" THEN 1 ELSE NoCursor

\* runBatch ends the loop on a falsy batch number (V15) or on 'STOP' (V18)
LoopEnds(arg) == IF variant = "V15" THEN arg = NoCursor ELSE arg = STOP

\* the cursor runBatch is called with after a report
CursorAfter(r) ==
    IF variant = "V15" THEN r.next
    ELSE (IF r.next = NoCursor THEN STOP ELSE r.next)

\* the request reaches the handler, which runs to its first await
Request(cursor, history) ==
    /\ h' = [IdleHandler EXCEPT !.pc = "fetch", !.cursor = cursor, !.before = db]
    /\ resp' = NoResponse
    /\ clock' = clock + 1
    /\ hist' = [history EXCEPT
                  !.calls = @ + 1,
                  !.prev = IF h.pc = "done"
                           THEN [kind |-> resp.kind, cursor |-> h.cursor,
                                 faulted |-> h.faulted]
                           ELSE NoInvocation]

UIClick_anytime ==
    /\ ui.clicks < MaxClicks
    /\ ui' = [ui EXCEPT !.disabled = TRUE, !.status = "running", !.pc = "await",
                        !.arg = StartCursor, !.clicks = @ + 1]
    /\ Request(StartCursor, [FreshHistory EXCEPT !.prev = hist.prev])
    /\ UNCHANGED <<variant, source, supplierArg, db, bucket, faults, uploads, peer, tableArg>>

\* lines 330-335 and 1453-1474: the click on the enabled start button
UIClick ==
    /\ ~ui.disabled
    /\ ui.clicks < MaxClicks
    /\ ui' = [ui EXCEPT !.disabled = TRUE, !.status = "running", !.pc = "await",
                        !.arg = StartCursor, !.clicks = @ + 1]
    /\ Request(StartCursor, [FreshHistory EXCEPT !.prev = hist.prev])
    /\ UNCHANGED <<variant, source, supplierArg, db, bucket, faults, uploads, peer, tableArg>>

\* runBatch called by the timer with the cursor of the next page
RunBatchFetch ==
    /\ ui.pc = "timer"
    /\ ~LoopEnds(ui.arg)
    /\ ui' = [ui EXCEPT !.pc = "await"]
    /\ Request(ui.arg, hist)
    /\ UNCHANGED <<variant, source, supplierArg, db, bucket, faults, uploads, peer, tableArg>>

\* runBatch called by the timer after the last page
RunBatchDone ==
    /\ ui.pc = "timer"
    /\ LoopEnds(ui.arg)
    /\ ui' = [ui EXCEPT !.pc = "idle", !.status = "complete", !.disabled = FALSE]
    /\ UNCHANGED <<variant, source, supplierArg, db, bucket, clock, faults, h, resp, hist, uploads, peer, tableArg>>

\* the response arrives: the next call is put on the timer, or the catch
\* block gives the button back
UIResponse ==
    /\ ui.pc = "await"
    /\ h.pc = "done"
    /\ ui' = IF resp.kind = "error"
             THEN [ui EXCEPT !.pc = "idle", !.status = "failed", !.disabled = FALSE]
             ELSE [ui EXCEPT !.pc = "timer", !.arg = CursorAfter(resp)]
    /\ UNCHANGED <<variant, source, supplierArg, db, bucket, clock, faults, h, resp, hist, uploads, peer, tableArg>>

(***************************************************************************)
(* GET /api/admin/batch-import (lines 88-221 and 1143-1268)                *)
(***************************************************************************)
Step(r) == h' = r.h /\ resp' = r.resp

\* the rows of the page the request asks for: [page, first, newOffset]
PageOf(cursor) ==
    IF variant = "V18"
    THEN [page |-> TablePage(source, cursor).records,
          first |-> IF cursor = NoCursor THEN 1 ELSE cursor,
          newOffset |-> TablePage(source, cursor).offset]
    ELSE [page |-> CsvPage(source, cursor),
          first |-> SliceFrom(Len(source), CsvOffset(cursor)) + 1,
          newOffset |-> NoCursor]

MissingParameter_tableOnly == variant = "V18" /\ tableArg = ""

\* line 1162: !tableId || !supplierId
MissingParameter == variant = "V18" /\ (tableArg = "" \/ supplierArg = "")

IsEmptyPage_never(page) == FALSE

\* lines 118 and 1177: productsToProcess.length === 0
IsEmptyPage(page) == Len(page) = 0

FetchPage ==
    /\ h.pc = "fetch"
    /\ ~MissingParameter
    /\ LET p  == PageOf(h.cursor)
           hh == [h EXCEPT !.page = p.page, !.first = p.first,
                           !.newOffset = p.newOffset, !.total = Len(source)]
       IN  /\ IF IsEmptyPage(p.page)
              THEN h' = [hh EXCEPT !.pc = "done"] /\ resp' = Completed
              ELSE Step(LoopFrom(hh, 1))
           /\ hist' = [hist EXCEPT
                         !.pages = IF p.page = <<>> THEN @ ELSE @ + 1,
                         !.fetched = [i \in DOMAIN @ |->
                              IF i \in p.first..(p.first + Len(p.page) - 1)
                              THEN @[i] + 1 ELSE @[i]]]
    /\ UNCHANGED <<variant, source, supplierArg, db, bucket, clock, faults, ui, uploads, peer, tableArg>>

\* the file is not in the bucket (404, V15) or the read throws (500)
FetchPageFails ==
    /\ h.pc = "fetch"
    /\ ~MissingParameter
    /\ faults < MaxFaults
    /\ \E status \in (IF variant = "V15" THEN {404, 500} ELSE {500}) :
          Step(Abort([h EXCEPT !.faulted = TRUE], status))
    /\ faults' = faults + 1
    /\ UNCHANGED <<variant, source, supplierArg, db, bucket, clock, ui, hist, uploads, peer, tableArg>>

\* lines 1162-1164: a request without table_id or supplier_id is answered 400
RejectParameters ==
    /\ h.pc = "fetch"
    /\ MissingParameter
    /\ Step(Abort(h, 400))
    /\ UNCHANGED <<variant, source, supplierArg, db, bucket, clock, faults, ui, hist,
                   uploads, peer, tableArg>>

\* ensureSupplierExists, line 412: the SELECT answers
SupplierSelect ==
    /\ h.pc = "select"
    /\ h' = [h EXCEPT !.pc = IF SupplierFound(db, h.supplierId) THEN "ai" ELSE "insert"]
    /\ UNCHANGED <<variant, source, supplierArg, db, bucket, clock, faults, ui, resp, hist, uploads, peer, tableArg>>

SupplierFailed_abort(hh) == Abort(hh, 500)

\* lines 142-145: the row is given up
SupplierFailed(hh) ==
    LoopFrom([hh EXCEPT !.importLog =
                 Append(@, LogLine("supplierFail", hh.sku, 0, <<>>)),
                        !.abandoned = @ \cup {hh.i}], hh.i + 1)

\* ensureSupplierExists, lines 417-419: the INSERT runs
SupplierInsertRuns ==
    /\ h.pc = "insert"
    /\ LET r == ExecStmt(db, SupplierInsert(h.supplierId), clock)
       IN  IF r.ok
           THEN /\ db' = r.db
                /\ h' = [h EXCEPT !.pc = "ai"]
                /\ resp' = resp
           ELSE /\ db' = db
                /\ Step(SupplierFailed(h))
    /\ UNCHANGED <<variant, source, supplierArg, bucket, clock, faults, ui, hist, uploads, peer, tableArg>>

\* a call of ensureSupplierExists to the store throws
SupplierCallFails ==
    /\ h.pc \in {"select", "insert"}
    /\ faults < MaxFaults
    /\ Step(SupplierFailed([h EXCEPT !.faulted = TRUE]))
    /\ faults' = faults + 1
    /\ UNCHANGED <<variant, source, supplierArg, db, bucket, clock, ui, hist, uploads, peer, tableArg>>

\* lines 149-169: the text service answers; tags, plan and log of the row
Classify ==
    /\ h.pc = "ai"
    /\ LET row == h.page[h.i]
       IN  \E answer \in {NominalAnswer(row)}
                         \cup (IF faults < MaxFaults THEN OddAnswers ELSE {}) :
             LET tags == AudienceTags(answer)
                 log1 == IF AiThrows(answer)
                         THEN Append(h.importLog, LogLine("aiFail", h.sku, 0, <<>>))
                         ELSE h.importLog
                 urls == parseImageUrls(row.images)
                 hh   == [h EXCEPT
                            !.ai = AiCalls(@, [i |-> h.i, sku |-> h.sku,
                                               answer |-> answer, tags |-> tags]),
                            !.dbStatements =
                                @ \o PlanRow(variant, row, h.sku, h.supplierId, tags),
                            !.importLog = Append(log1, LogLine("prepared", h.sku, 0, tags)),
                            !.urls = urls, !.imageIndex = 0]
             IN  /\ IF AiThrows(answer) /\ ~AiCaught(answer)
                    THEN Step(Abort(h, 500))
                    ELSE IF urls # <<>>
                    THEN h' = [hh EXCEPT !.pc = "image"] /\ resp' = resp
                    ELSE Step(LoopFrom(hh, h.i + 1))
                 /\ faults' = IF answer \in OddAnswers THEN faults + 1 ELSE faults
    /\ UNCHANGED <<variant, source, supplierArg, db, bucket, clock, ui, hist, uploads, peer, tableArg>>

\* lines 171-193: the image loop after the await of an image
AfterImage(hh) ==
    IF hh.imageIndex + 1 < Len(hh.urls)
    THEN [h |-> [hh EXCEPT !.imageIndex = @ + 1], resp |-> NoResponse]
    ELSE LoopFrom(hh, hh.i + 1)

\* what became of image imageIndex + 1 of the row in hand
ImageOutcome(hh, ok) ==
    [i |-> hh.i, sku |-> hh.sku, n |-> hh.imageIndex + 1,
     r2Key |-> R2Key(hh.supplierId, hh.sku, hh.imageIndex), ok |-> ok]

\* lines 176-186: fetchAndUploadImage resolves: the blob is stored, the row
\* recorded
ImageUploaded ==
    /\ h.pc = "image"
    /\ LET r2Key == R2Key(h.supplierId, h.sku, h.imageIndex)
           isPrimary == IF h.imageIndex = 0 THEN 1 ELSE 0
       IN  /\ bucket' = bucket \cup {r2Key}
           /\ Step(AfterImage([h EXCEPT
                    !.dbStatements = Append(@, ImageStmt(h.sku, r2Key, isPrimary)),
                    !.importLog = Append(@, LogLine("imageOk", h.sku,
                                                    h.imageIndex + 1, <<>>)),
                    !.images = Append(@, ImageOutcome(h, TRUE))]))
    /\ UNCHANGED <<variant, source, supplierArg, db, clock, faults, ui, hist, uploads, peer, tableArg>>

ImageRejected_break(hh) ==
    LoopFrom([hh EXCEPT
                !.importLog = Append(@, LogLine("imageFail", hh.sku,
                                                hh.imageIndex + 1, <<>>)),
                !.images = Append(@, ImageOutcome(hh, FALSE))], hh.i + 1)

\* lines 188-192: the catch of the image loop logs the image and goes on to
\* the next one
ImageRejected(hh) ==
    AfterImage([hh EXCEPT
                  !.importLog = Append(@, LogLine("imageFail", hh.sku,
                                                  hh.imageIndex + 1, <<>>)),
                  !.images = Append(@, ImageOutcome(hh, FALSE))])

\* fetchAndUploadImage rejects: the download is refused (lines 470-472) or the
\* put fails; at most budget anomalies in a behaviour
ImageFailsUpTo(budget) ==
    /\ h.pc = "image"
    /\ faults < budget
    /\ Step(ImageRejected(h))
    /\ faults' = faults + 1
    /\ UNCHANGED <<variant, source, supplierArg, db, bucket, clock, ui, hist, uploads, peer, tableArg>>

ImageFails == ImageFailsUpTo(MaxFaults)

\* lines 198-217: DB.batch answers
Commit ==
    /\ h.pc = "commit"
    /\ LET r == Batch(db, h.dbStatements, clock)
       IN  IF r.ok
           THEN /\ db' = r.db
                /\ h' = [h EXCEPT !.pc = "done", !.committed = h.dbStatements]
                /\ resp' = Report(h)
           ELSE /\ db' = r.db
                /\ Step(Abort(h, 500))
    /\ UNCHANGED <<variant, source, supplierArg, bucket, clock, faults, ui, hist, uploads, peer, tableArg>>

\* the store is out of reach when the batch is sent
CommitFails ==
    /\ h.pc = "commit"
    /\ faults < MaxFaults
    /\ Step(Abort([h EXCEPT !.faulted = TRUE], 500))
    /\ faults' = faults + 1
    /\ UNCHANGED <<variant, source, supplierArg, db, bucket, clock, ui, hist, uploads, peer, tableArg>>

Next ==
    \/ UIClick
    \/ RunBatchFetch
    \/ RunBatchDone
    \/ UIResponse
    \/ FetchPage
    \/ FetchPageFails
    \/ SupplierSelect
    \/ SupplierInsertRuns
    \/ SupplierCallFails
    \/ Classify
    \/ ImageUploaded
    \/ ImageFails
    \/ Commit
    \/ CommitFails

Spec == Init /\ [][Next]_vars

(***************************************************************************)
(* The planners on their own: one call with a row that has a SKU and a tag *)
(* array, empty and repeated tags included.                                *)
(***************************************************************************)
PlannerTags == {"Dog", "Cat", ""}
TagArrays == UNION {[1..n -> PlannerTags] : n \in 0..MaxTags}

RECURSIVE TagTokens(_)
\* the elements of the JSON text of a tag array
TagTokens(tags) ==
    IF tags = <<>> THEN <<>>
    ELSE IF Len(tags) = 1 THEN <<Str(Head(tags))>>
    ELSE <<Str(Head(tags)), Comma>> \o TagTokens(Tail(tags))

InitPlanner ==
    /\ variant \in Variants
    /\ supplierArg \in (IF variant = "V18" THEN SupplierArgs ELSE {""})
    /\ \E t \in 1..Len(Templates) : Templates[t].sku # "" /\ source = <<Templates[t]>>
    /\ db = EmptyDb
    /\ bucket = {}
    /\ clock = 0
    /\ faults = 0
    /\ ui = [disabled |-> FALSE, status |-> "idle", pc |-> "idle",
             arg |-> NoCursor, clicks |-> 0]
    /\ \E tags \in TagArrays :
          h = [IdleHandler EXCEPT
                 !.pc = "plan", !.page = source, !.i = 1, !.sku = source[1].sku,
                 !.supplierId = SupplierOf(source[1]),
                 !.ai = <<[i |-> 1, sku |-> source[1].sku,
                           answer |-> Text(<<LB>> \o TagTokens(tags) \o <<RB>>),
                           tags |-> tags]>>]
    /\ resp = NoResponse
    /\ hist = FreshHistory
    /\ uploads = {}
    /\ peer = NoPeer
    /\ tableArg = (IF variant = "V18" THEN TABLE_ID ELSE "")

\* lines 162-163 and 1218-1219: the planner is called and its writes are
\* pushed
PlanOnce ==
    /\ h.pc = "plan"
    /\ h' = [h EXCEPT !.pc = "planned",
                      !.dbStatements = @ \o PlanRow(variant, h.page[h.i], h.sku,
                                                    h.supplierId, h.ai[1].tags)]
    /\ UNCHANGED <<variant, source, supplierArg, db, bucket, clock, faults, ui, resp,
                   hist, uploads, peer, tableArg>>

NextPlanner == PlanOnce

SpecPlanner == InitPlanner /\ [][NextPlanner]_vars

\* The endpoint called by hand, without the importer page: any batch number up
\* to one page past the end of the file (V15), no offset or the token of the
\* second page (V18).
DirectCursors ==
    IF variant = "V15"
    THEN 1..(CeilDiv(Len(source), BATCH_SIZE) + 1)
    ELSE {NoCursor, TablePage(source, NoCursor).offset}

\* a request is sent once the previous one has been answered
DirectCall ==
    /\ h.pc \in {"idle", "done"}
    /\ ui.clicks < MaxClicks
    /\ ui' = [ui EXCEPT !.clicks = @ + 1]
    /\ \E cursor \in DirectCursors : Request(cursor, hist)
    /\ UNCHANGED <<variant, source, supplierArg, db, bucket, faults, uploads, peer, tableArg>>

NextDirect ==
    \/ DirectCall
    \/ FetchPage
    \/ SupplierSelect
    \/ SupplierInsertRuns
    \/ Classify
    \/ ImageUploaded
    \/ Commit

SpecDirect == Init /\ [][NextDirect]_vars

(***************************************************************************)
(* The records-API handler requested with any parameters: table_id and     *)
(* supplier_id are given or missing, call by call.                         *)
(***************************************************************************)
InitParams == Init /\ variant = "V18"

\* lines 1158-1160: the request carries offset, table_id and supplier_id
ParamCall ==
    /\ h.pc \in {"idle", "done"}
    /\ ui.clicks < MaxClicks
    /\ ui' = [ui EXCEPT !.clicks = @ + 1]
    /\ \E cursor \in DirectCursors : Request(cursor, hist)
    /\ tableArg' \in {"", TABLE_ID}
    /\ supplierArg' \in {""} \cup SupplierArgs
    /\ UNCHANGED <<variant, source, db, bucket, faults, uploads, peer>>

NextParams ==
    \/ ParamCall
    \/ RejectParameters
    \/ FetchPage
    \/ SupplierSelect
    \/ SupplierInsertRuns
    \/ Classify
    \/ ImageUploaded
    \/ Commit

SpecParams == InitParams /\ [][NextParams]_vars

(***************************************************************************)
(* The CSV handler requested with any batch number, zero and negative      *)
(* numbers included.                                                       *)
(***************************************************************************)
InitAnyBatch == Init /\ variant = "V15"

\* line 101: parseInt of the batch parameter
BatchNumbers == (0 - MaxBack)..(CeilDiv(Len(source), BATCH_SIZE) + 1)

\* GET /api/admin/batch-import?batch=b
BatchCall ==
    /\ h.pc \in {"idle", "done"}
    /\ ui.clicks < MaxClicks
    /\ ui' = [ui EXCEPT !.clicks = @ + 1]
    /\ \E batchNumber \in BatchNumbers : Request(batchNumber, hist)
    /\ UNCHANGED <<variant, source, supplierArg, db, bucket, faults, uploads, peer, tableArg>>

NextAnyBatch ==
    \/ BatchCall
    \/ FetchPage
    \/ SupplierSelect
    \/ SupplierInsertRuns
    \/ Classify
    \/ ImageUploaded
    \/ Commit

SpecAnyBatch == InitAnyBatch /\ [][NextAnyBatch]_vars

\* the same handlers in an environment where the source and the store answer
\* and images fail more often
NextImages ==
    \/ UIClick
    \/ RunBatchFetch
    \/ RunBatchDone
    \/ UIResponse
    \/ FetchPage
    \/ SupplierSelect
    \/ SupplierInsertRuns
    \/ Classify
    \/ ImageUploaded
    \/ ImageFailsUpTo(MaxImageFaults)
    \/ Commit

SpecImages == Init /\ [][NextImages]_vars

(***************************************************************************)
(* The background import of snapshot V12 (lines 687-872): the start route  *)
(* posts batch 1 to /admin/process-batch, which runs handleBatchImport     *)
(* under waitUntil; a batch that leaves rows posts the next one.           *)
(***************************************************************************)
\* a store in which the suppliers named by the file have been registered
SeededDb ==
    [EmptyDb EXCEPT !["Suppliers"] =
        <<SupplierInsert(DEFAULT_SUPPLIER).row, SupplierInsert("BokBok").row,
          SupplierInsert("Bok Bok").row>>]

InitBg ==
    /\ variant = "V12"
    /\ source \in {Catalog(s, n) : s \in CatalogStarts, n \in 0..MaxRows}
    /\ supplierArg = ""
    /\ db \in {EmptyDb, SeededDb}
    /\ bucket = {}
    /\ clock = 0
    /\ faults = 0
    /\ ui = [disabled |-> FALSE, status |-> "idle", pc |-> "idle",
             arg |-> NoCursor, clicks |-> 0]
    /\ h = IdleHandler
    /\ resp = NoResponse
    /\ hist = FreshHistory
    /\ uploads = {}
    /\ peer = NoPeer
    /\ tableArg = (IF variant = "V18" THEN TABLE_ID ELSE "")

BgFinish_always(hh) == [hh EXCEPT !.pc = "chain", !.i = 0]

\* lines 849-867: the next batch is posted when rows remain
BgFinish(hh) ==
    [hh EXCEPT !.pc = IF Remaining(hh.total, hh.cursor, Len(hh.page)) > 0
                      THEN "chain" ELSE "done",
               !.i = 0]

\* lines 783-786 and 835-839: the loop from position i up to its next await
BgLoopFrom(hh, i) ==
    LET j == NextWithSku(hh.page, i)
    IN  IF j # 0
        THEN [hh EXCEPT !.pc = "ai", !.i = j, !.sku = hh.page[j].sku,
                        !.supplierId = SupplierOf(hh.page[j]),
                        !.urls = <<>>, !.imageIndex = 0]
        ELSE IF ShouldCommit(hh.dbStatements)
        THEN [hh EXCEPT !.pc = "commit", !.i = 0, !.sent = Append(@, hh.dbStatements)]
        ELSE BgFinish([hh EXCEPT
                         !.importLog = Append(@, LogLine("warning", "", 0, <<>>))])

\* GET /admin/start-full-import (lines 687-712) and the POST it sends
StartFullImport ==
    /\ h.pc \in {"idle", "done"}
    /\ ui.clicks < MaxClicks
    /\ ui' = [ui EXCEPT !.clicks = @ + 1]
    /\ Request(1, [FreshHistory EXCEPT !.prev = hist.prev])
    /\ UNCHANGED <<variant, source, supplierArg, db, bucket, faults, uploads, peer, tableArg>>

\* lines 859-864: the POST of the next batch arrives
ChainNext ==
    /\ h.pc = "chain"
    /\ Request(h.cursor + 1, hist)
    /\ UNCHANGED <<variant, source, supplierArg, db, bucket, faults, ui, uploads, peer, tableArg>>

\* lines 755-776: the file is read and sliced
BgFetchPage ==
    /\ h.pc = "fetch"
    /\ LET p  == PageOf(h.cursor)
           hh == [h EXCEPT !.page = p.page, !.first = p.first, !.total = Len(source)]
       IN  /\ h' = IF p.page = <<>> THEN [hh EXCEPT !.pc = "done"] ELSE BgLoopFrom(hh, 1)
           /\ hist' = [hist EXCEPT
                         !.pages = IF p.page = <<>> THEN @ ELSE @ + 1,
                         !.fetched = [i \in DOMAIN @ |->
                              IF i \in p.first..(p.first + Len(p.page) - 1)
                              THEN @[i] + 1 ELSE @[i]]]
    /\ UNCHANGED <<variant, source, supplierArg, db, bucket, clock, faults, ui, resp,
                   uploads, peer, tableArg>>

\* lines 756-759 and 869-871: no file, or the read throws; the chain ends
BgFetchPageFails ==
    /\ h.pc = "fetch"
    /\ faults < MaxFaults
    /\ h' = [h EXCEPT !.pc = "done", !.faulted = TRUE]
    /\ faults' = faults + 1
    /\ UNCHANGED <<variant, source, supplierArg, db, bucket, clock, ui, resp, hist,
                   uploads, peer, tableArg>>

\* lines 810-831: every image is handed to waitUntil and its row is planned at
\* once
BgImageStmts(supplierId, sku, n) ==
    [k \in 1..n |-> ImageStmt(sku, R2Key(supplierId, sku, k - 1),
                              IF k = 1 THEN 1 ELSE 0)]

BgImageLines(sku, n) == [k \in 1..n |-> LogLine("imageStart", sku, k, <<>>)]

BgUploads(supplierId, sku, i, n, now) ==
    {[r2Key |-> R2Key(supplierId, sku, k - 1), sku |-> sku, at |-> now, i |-> i,
      n |-> k, state |-> "pending"] : k \in 1..n}

\* the uploads are followed in the order in which they were started: u is the
\* pending upload that was started first
FirstPending(u) ==
    /\ u \in uploads
    /\ u.state = "pending"
    /\ \A v \in uploads :
          v.state = "pending"
          => \/ u.at < v.at
             \/ u.at = v.at /\ u.i < v.i
             \/ u.at = v.at /\ u.i = v.i /\ u.n <= v.n

\* lines 789-832: the text service answers; tags, plan, log and images of the
\* row
BgClassify ==
    /\ h.pc = "ai"
    /\ LET row == h.page[h.i]
       IN  \E answer \in {NominalAnswer(row)}
                         \cup (IF faults < MaxFaults THEN OddAnswers ELSE {}) :
             LET tags == AudienceTags(answer)
                 log1 == IF AiThrows(answer)
                         THEN Append(h.importLog, LogLine("aiFail", h.sku, 0, <<>>))
                         ELSE h.importLog
                 n    == Len(parseImageUrls(row.images))
                 hh   == [h EXCEPT
                            !.ai = AiCalls(@, [i |-> h.i, sku |-> h.sku,
                                               answer |-> answer, tags |-> tags]),
                            !.dbStatements =
                                @ \o getProductSqlStatements_v11(row, h.sku,
                                                                 h.supplierId, tags)
                                  \o BgImageStmts(h.supplierId, h.sku, n),
                            !.importLog = Append(log1, LogLine("prepared", h.sku, 0, tags))
                                          \o BgImageLines(h.sku, n)]
             IN  /\ h' = BgLoopFrom(hh, h.i + 1)
                 /\ uploads' = uploads \cup BgUploads(h.supplierId, h.sku, h.i, n, clock)
                 /\ faults' = IF answer \in OddAnswers THEN faults + 1 ELSE faults
    /\ UNCHANGED <<variant, source, supplierArg, db, bucket, clock, ui, resp, hist, peer, tableArg>>

\* lines 835-867: DB.batch answers; a rejected batch ends in the catch of
\* lines 869-871
BgCommit ==
    /\ h.pc = "commit"
    /\ LET r == Batch(db, h.dbStatements, clock)
       IN  IF r.ok
           THEN /\ db' = r.db
                /\ h' = BgFinish([h EXCEPT !.committed = h.dbStatements])
           ELSE /\ db' = r.db
                /\ h' = [h EXCEPT !.pc = "done"]
    /\ UNCHANGED <<variant, source, supplierArg, bucket, clock, faults, ui, resp, hist,
                   uploads, peer, tableArg>>

BgCommitFails_chains ==
    /\ h.pc = "commit"
    /\ faults < MaxFaults
    /\ h' = BgFinish([h EXCEPT !.faulted = TRUE])
    /\ faults' = faults + 1
    /\ UNCHANGED <<variant, source, supplierArg, db, bucket, clock, ui, resp, hist,
                   uploads, peer, tableArg>>

\* the store is out of reach when the batch is sent
BgCommitFails ==
    /\ h.pc = "commit"
    /\ faults < MaxFaults
    /\ h' = [h EXCEPT !.pc = "done", !.faulted = TRUE]
    /\ faults' = faults + 1
    /\ UNCHANGED <<variant, source, supplierArg, db, bucket, clock, ui, resp, hist,
                   uploads, peer, tableArg>>

\* fetchAndUploadImage (lines 923-937) runs to its end: the blob is stored
UploadStored ==
    /\ \E u \in uploads :
          /\ FirstPending(u)
          /\ bucket' = bucket \cup {u.r2Key}
          /\ uploads' = (uploads \ {u}) \cup {[u EXCEPT !.state = "stored"]}
    /\ UNCHANGED <<variant, source, supplierArg, db, clock, faults, ui, h, resp, hist, peer, tableArg>>

\* fetchAndUploadImage: the download is refused or the put fails; the catch of
\* lines 934-936 writes to the console
UploadFails ==
    /\ faults < MaxFaults
    /\ \E u \in uploads :
          /\ FirstPending(u)
          /\ uploads' = (uploads \ {u}) \cup {[u EXCEPT !.state = "failed"]}
    /\ faults' = faults + 1
    /\ UNCHANGED <<variant, source, supplierArg, db, bucket, clock, ui, h, resp, hist, peer, tableArg>>

NextBg ==
    \/ StartFullImport
    \/ ChainNext
    \/ BgFetchPage
    \/ BgFetchPageFails
    \/ BgClassify
    \/ BgCommit
    \/ BgCommitFails
    \/ UploadStored
    \/ UploadFails

SpecBg == InitBg /\ [][NextBg]_vars

(***************************************************************************)
(* Two invocations at the same time.  The second one is followed as a      *)
(* whole: all its steps fall between two steps of the invocation in hand;  *)
(* the text service gives it the nominal answers and its images arrive.    *)
(***************************************************************************)
\* the ProductImages writes of a row whose images were all uploaded
AllImageStmts(supplierId, sku, n) ==
    [k \in 1..n |-> ImageStmt(sku, R2Key(supplierId, sku, k - 1),
                              IF k = 1 THEN 1 ELSE 0)]

RECURSIVE NominalPlan(_, _)
\* lines 130-195 without anomalies: the write list of a page from row i on
NominalPlan(page, i) ==
    IF i > Len(page) THEN <<>>
    ELSE IF page[i].sku = "" THEN NominalPlan(page, i + 1)
    ELSE PlanRow(variant, page[i], page[i].sku, SupplierOf(page[i]),
                 AudienceTags(NominalAnswer(page[i])))
         \o AllImageStmts(SupplierOf(page[i]), page[i].sku,
                          Len(parseImageUrls(page[i].images)))
         \o NominalPlan(page, i + 1)

\* the blobs an invocation stores for the rows of the page
BlobsOf(page) ==
    UNION {{R2Key(SupplierOf(page[i]), page[i].sku, k - 1) :
               k \in 1..Len(parseImageUrls(page[i].images))} :
           i \in {j \in 1..Len(page) : page[j].sku # ""}}

\* the row the second invocation has in hand is planned and its images stored
PeerPlanned(p, page) ==
    [p EXCEPT !.stmts = @ \o NominalPlan(<<page[p.i]>>, 1)]

\* the second invocation moves on to the next row with a SKU, or to its commit
PeerLoopFrom(p, page, i) ==
    LET j == NextWithSku(page, i)
    IN  IF j # 0 THEN [p EXCEPT !.pc = "select", !.i = j]
        ELSE IF ShouldCommit(p.stmts) THEN [p EXCEPT !.pc = "commit", !.i = 0]
        ELSE [p EXCEPT !.pc = "done", !.i = 0]

\* a second request arrives while the invocation in hand is under way
PeerStart ==
    /\ ~peer.ran
    /\ h.pc \in {"fetch", "select", "insert", "ai", "image", "commit"}
    /\ \E cursor \in DirectCursors :
          LET p == [NoPeer EXCEPT !.ran = TRUE, !.cursor = cursor, !.at = clock]
          IN  peer' = IF IsEmptyPage(PageOf(cursor).page)
                      THEN [p EXCEPT !.pc = "done"]
                      ELSE PeerLoopFrom(p, PageOf(cursor).page, 1)
    /\ UNCHANGED <<variant, source, supplierArg, db, bucket, clock, faults, ui, h, resp,
                   hist, uploads, tableArg>>

\* ensureSupplierExists, line 412, in the second invocation; a found supplier
\* lets the row through to the classifier, the uploads and the planner
PeerSelect ==
    /\ peer.pc = "select"
    /\ LET page == PageOf(peer.cursor).page
       IN  IF SupplierFound(db, SupplierOf(page[peer.i]))
           THEN /\ peer' = PeerLoopFrom(PeerPlanned(peer, page), page, peer.i + 1)
                /\ bucket' = bucket \cup BlobsOf(<<page[peer.i]>>)
           ELSE /\ peer' = [peer EXCEPT !.pc = "insert"]
                /\ bucket' = bucket
    /\ UNCHANGED <<variant, source, supplierArg, db, clock, faults, ui, h, resp, hist,
                   uploads, tableArg>>

\* ensureSupplierExists, lines 417-419, in the second invocation; when the
\* INSERT throws the row is given up (lines 142-145)
PeerInsert ==
    /\ peer.pc = "insert"
    /\ LET page == PageOf(peer.cursor).page
           r    == ExecStmt(db, SupplierInsert(SupplierOf(page[peer.i])), clock)
       IN  IF r.ok
           THEN /\ db' = r.db
                /\ peer' = PeerLoopFrom(PeerPlanned(peer, page), page, peer.i + 1)
                /\ bucket' = bucket \cup BlobsOf(<<page[peer.i]>>)
           ELSE /\ db' = db
                /\ peer' = PeerLoopFrom([peer EXCEPT !.abandoned = @ \cup {peer.i}],
                                        page, peer.i + 1)
                /\ bucket' = bucket
    /\ UNCHANGED <<variant, source, supplierArg, clock, faults, ui, h, resp, hist,
                   uploads, tableArg>>

\* lines 198-202 in the second invocation
PeerCommit ==
    /\ peer.pc = "commit"
    /\ db' = Batch(db, peer.stmts, clock).db
    /\ peer' = [peer EXCEPT !.pc = "done"]
    /\ UNCHANGED <<variant, source, supplierArg, bucket, clock, faults, ui, h, resp,
                   hist, uploads, tableArg>>

NextPeer ==
    \/ UIClick
    \/ RunBatchFetch
    \/ RunBatchDone
    \/ UIResponse
    \/ FetchPage
    \/ SupplierSelect
    \/ SupplierInsertRuns
    \/ Classify
    \/ ImageUploaded
    \/ Commit
    \/ PeerStart
    \/ PeerSelect
    \/ PeerInsert
    \/ PeerCommit

SpecPeer == Init /\ [][NextPeer]_vars

(***************************************************************************)
(* Properties                                                              *)
(***************************************************************************)
Finished == h.pc = "done"
Reported == h.pc = "done" /\ resp.kind = "report"
RowsWithSku(page) == {j \in 1..Len(page) : page[j].sku # ""}
LinesOf(type, sku) == CountIn(h.importLog, LAMBDA l : l.type = type /\ l.sku = sku)
Parsed(answer) == JSONParse(CleanResponse(answer.text))
Skus == {Templates[t].sku : t \in 1..Len(Templates)}

RECURSIVE EnsureRows(_, _, _, _)
\* ensureSupplierExists for every row of the page that has a SKU, in page order
EnsureRows(d, page, i, now) ==
    IF i > Len(page) THEN d
    ELSE IF page[i].sku = "" THEN EnsureRows(d, page, i + 1, now)
    ELSE EnsureRows(ensureSupplierExists(d, SupplierOf(page[i]), now).db, page, i + 1, now)

\* the writes of the page in hand applied to store d at time now
ApplyPage(d, now) == Batch(EnsureRows(d, h.page, 1, now), h.dbStatements, now).db

\* C1: applying the write operations of a page (the Suppliers inserts of
\* ensureSupplierExists, then the batch of Products, ProductInventory,
\* ProductTags, ProductAudience and ProductImages statements) a second time,
\* later, leaves the store as the first application left it; from the current
\* store and from an empty one.
C1_ApplyTwiceIsApplyOnce ==
    \A d \in {db, EmptyDb} :
        LET once == ApplyPage(d, clock)
        IN  ApplyPage(once, clock + 1) = once

\* a V15 page ready to commit, with statements for all five tables, one of its
\* SKUs already imported, and still something new to write
C1_Witness ==
    /\ variant = "V15"
    /\ h.pc = "commit"
    /\ {h.dbStatements[k].table : k \in 1..Len(h.dbStatements)} = Tables \ {"Suppliers"}
    /\ \E k \in 1..Len(h.dbStatements) :
          HasKey(db, "Products", <<h.dbStatements[k].row.sku>>)
    /\ ApplyPage(db, clock) # db

\* C2: when batch-import is invoked twice in succession with the same cursor
\* over the unchanged source, and source and store answer both times, neither
\* invocation returns an error response and no table holds two rows with the
\* same key afterwards.
C2_RerunReportsAndKeepsKeysUnique ==
    (/\ Finished
     /\ hist.prev.kind # "none"
     /\ hist.prev.cursor = h.cursor
     /\ ~h.faulted /\ ~hist.prev.faulted)
    => /\ resp.kind # "error"
       /\ hist.prev.kind # "error"
       /\ NoDuplicateKeys(db)

\* C3: in a run of the polling loop no row is fetched twice, a run that ends
\* in completion has fetched every row exactly once, and in CSV mode the page
\* of batch b is exactly the rows (b-1)*BATCH_SIZE .. min(b*BATCH_SIZE, N)-1.
C3_EveryRowInExactlyOnePage ==
    /\ \A i \in DOMAIN hist.fetched : hist.fetched[i] <= 1
    /\ ui.status = "complete" => \A i \in DOMAIN hist.fetched : hist.fetched[i] = 1
    /\ (variant = "V15" /\ h.pc \notin {"idle", "fetch"} /\ ~h.faulted)
       => h.page = SubSeq(source, (h.cursor - 1) * BATCH_SIZE + 1,
                          Min(h.cursor * BATCH_SIZE, Len(source)))

\* a CSV run over more than one page has ended in completion
C3_Witness ==
    /\ variant = "V15"
    /\ ui.status = "complete"
    /\ Len(source) > BATCH_SIZE
    /\ h.cursor = 2

\* C4 as stated: a completed run has visited ceil(N/P) non-empty pages and
\* then one more, empty, page whose cursor is null.
C4_EndsWithAnEmptyPage ==
    ui.status = "complete"
    => /\ hist.pages = CeilDiv(Len(source), BATCH_SIZE)
       /\ hist.calls = CeilDiv(Len(source), BATCH_SIZE) + 1
       /\ resp.kind = "complete"
       /\ resp.next = NoCursor

\* C4 as amended: a completed run has visited exactly ceil(N/P) non-empty
\* pages, the last of which carried a null cursor, and made no further call;
\* only for N = 0 was an empty page fetched, by the single call.  The loop has
\* then stopped.
C4_EndsAfterTheLastPage ==
    ui.status = "complete"
    => /\ hist.pages = CeilDiv(Len(source), BATCH_SIZE)
       /\ hist.calls = Max(1, CeilDiv(Len(source), BATCH_SIZE))
       /\ resp.next = NoCursor
       /\ (resp.kind = "complete") = (Len(source) = 0)
       /\ ui.pc = "idle"

\* a run over two pages has ended in completion on the report of page two
C4_Witness ==
    /\ ui.status = "complete"
    /\ hist.pages = 2
    /\ resp.kind = "report"

\* C5: the report of a non-empty page carries a null cursor exactly when no
\* source row lies after the page, and otherwise a cursor whose page starts
\* with the row after it.
C5_NullCursorIffLastPage ==
    Reported
    => LET last == h.first + Len(h.page) - 1
       IN  /\ (resp.next = NoCursor) = (last = Len(source))
           /\ resp.next # NoCursor
              => /\ PageOf(resp.next).page # <<>>
                 /\ PageOf(resp.next).first = last + 1

\* both cases in one run: the report of the second, last page
C5_Witness ==
    /\ Reported
    /\ h.first > 1
    /\ resp.next = NoCursor
    /\ hist.pages = 2

\* C6: for a row of the page without a SKU no write is planned, no error
\* line is logged, no classifier call and no supplier creation is made, and
\* the row is not counted in the processed number of the report.
C6_RowsWithoutSkuAreSkipped ==
    /\ \A k \in 1..Len(h.dbStatements) : h.dbStatements[k].row.sku # ""
    /\ \A k \in 1..Len(h.importLog) :
          h.importLog[k].type \in {"supplierFail", "aiFail", "imageFail"}
          => h.importLog[k].sku # ""
    /\ \A k \in 1..Len(h.ai) : h.page[h.ai[k].i].sku # ""
    /\ \A j \in h.ensured : h.page[j].sku # ""
    /\ Reported => resp.processed <= Cardinality(RowsWithSku(h.page))

C8_EmptyAnswerFallsBack ==
    variant = "V15"
    => \A k \in 1..Len(h.ai) :
          /\ (/\ ~h.ai[k].answer.threw
              /\ Parsed(h.ai[k].answer).isArray
              /\ \A e \in 1..Len(Parsed(h.ai[k].answer).elems) :
                    ~Truthy(Parsed(h.ai[k].answer).elems[e]))
             => h.ai[k].tags = <<"other">>
          /\ \E n \in 1..Len(h.dbStatements) :
                /\ h.dbStatements[n].table = "ProductAudience"
                /\ h.dbStatements[n].row.sku = h.ai[k].sku

\* C9: in the CSV handler every audience tag of a ProductAudience write, and
\* of a ProductAudience row of the store, is one of Dog, Cat, Humans, other.
C9_TagsAreInTheVocabulary ==
    variant = "V15"
    => /\ \A n \in 1..Len(h.dbStatements) :
             h.dbStatements[n].table = "ProductAudience"
             => h.dbStatements[n].row.audience_tag \in Vocabulary
       /\ \A n \in 1..Len(db["ProductAudience"]) :
             db["ProductAudience"][n].audience_tag \in Vocabulary

\* C10: in the CSV handler, whatever the text service did, every row with a
\* SKU whose supplier was ensured is classified and has its Products and
\* ProductInventory writes in the batch; and unless the source read or the
\* commit itself failed, the invocation ends with a report and that batch is
\* the one committed.
C10_ClassifierNeverAborts ==
    variant = "V15"
    => /\ \A k \in 1..Len(h.ai) :
             LET row == h.page[h.ai[k].i]
             IN  /\ \E n \in 1..Len(h.dbStatements) : h.dbStatements[n] =
                        ProductsStmt(row, row.sku, SupplierOf(row))
                 /\ \E n \in 1..Len(h.dbStatements) : h.dbStatements[n] =
                        InventoryStmt_v11(row, row.sku)
       /\ (Finished /\ ~h.faulted /\ h.page # <<>>)
          => /\ resp.kind = "report"
             /\ h.committed = h.dbStatements
             /\ Len(h.ai) = Cardinality(RowsWithSku(h.page))
                            - CountIn(h.importLog, LAMBDA l : l.type = "supplierFail")
             /\ \A k \in 1..Len(h.ai) :
                   /\ HasKey(db, "Products", <<h.ai[k].sku>>)
                   /\ HasKey(db, "ProductInventory", <<h.ai[k].sku>>)

\* a CSV invocation has reported after a classifier call threw
C10_Witness ==
    /\ variant = "V15"
    /\ Reported
    /\ \E k \in 1..Len(h.ai) : h.ai[k].answer.threw

NonImage(stmts) == SelectSeq(stmts, LAMBDA st : st.table # "ProductImages")
ImageWrites(stmts) == SelectSeq(stmts, LAMBDA st : st.table = "ProductImages")

RECURSIVE PlanOf(_)
\* the planner's writes for the classified rows, whatever became of the images
PlanOf(ai) ==
    IF ai = <<>> THEN <<>>
    ELSE PlanRow(variant, h.page[Head(ai).i], Head(ai).sku,
                 SupplierOf(h.page[Head(ai).i]), Head(ai).tags)
         \o PlanOf(Tail(ai))

\* the image loop of the k-th classified row is over
ImagesDone(k) == k < Len(h.ai) \/ h.pc \in {"commit", "done"}

\* C11: whichever images of a product fail, every image of the product is
\* attempted; the batch has a ProductImages write (and the bucket a blob) for
\* each image that was uploaded and for no other, the log has a failure line
\* for each image that failed, and the writes to the other tables are exactly
\* the planner's writes for the classified rows, as when no image fails; a
\* reported invocation has committed that batch.
C11_FailedImagesAreIsolated ==
    /\ NonImage(h.dbStatements) = PlanOf(h.ai)
    /\ \A k \in 1..Len(h.ai) :
          ImagesDone(k)
          => CountIn(h.images, LAMBDA o : o.i = h.ai[k].i)
                = Len(parseImageUrls(h.page[h.ai[k].i].images))
    /\ \A k \in 1..Len(h.images) :
          LET o == h.images[k]
          IN  IF o.ok
              THEN /\ o.r2Key \in bucket
                   /\ \E n \in 1..Len(h.dbStatements) :
                         /\ h.dbStatements[n].table = "ProductImages"
                         /\ h.dbStatements[n].row.sku = o.sku
                         /\ h.dbStatements[n].row.r2_key = o.r2Key
              ELSE LinesOf("imageFail", o.sku)
                      = CountIn(h.images, LAMBDA q : q.sku = o.sku /\ ~q.ok)
    /\ Len(ImageWrites(h.dbStatements)) = CountIn(h.images, LAMBDA o : o.ok)
    /\ Reported => h.committed = h.dbStatements

\* a CSV invocation has reported a product one of whose images failed and
\* another was uploaded, and the uploaded one has its row in the store
C11_Witness ==
    /\ variant = "V15"
    /\ Reported
    /\ \E a, b \in 1..Len(h.images) :
          /\ h.images[a].i = h.images[b].i
          /\ ~h.images[a].ok
          /\ h.images[b].ok
          /\ HasKey(db, "ProductImages", <<h.images[b].sku, h.images[b].r2Key>>)
          /\ HasKey(db, "ProductAudience", <<h.images[b].sku, "Dog">>)

\* C12: in the background import no ProductImages row is in the store for an
\* image whose download or upload has failed and whose blob is not in the
\* bucket.
C12_NoRowForAFailedImage ==
    \A u \in uploads :
        (u.state = "failed" /\ u.r2Key \notin bucket)
        => ~HasKey(db, "ProductImages", <<u.sku, u.r2Key>>)

Classified == {h.ai[k].i : k \in 1..Len(h.ai)}

\* C13: a row whose supplier could not be ensured is not classified, has no
\* image fetched and adds nothing to the batch (the batch holds the planner's
\* writes of the classified rows and the rows of the uploaded images, nothing
\* else); a line with its SKU is logged; and the loop goes on: once the loop
\* is over every row with a SKU was either given up or classified.
C13_AbandonedRowWritesNothing ==
    /\ h.abandoned \cap Classified = {}
    /\ \A k \in 1..Len(h.images) : h.images[k].i \notin h.abandoned
    /\ NonImage(h.dbStatements) = PlanOf(h.ai)
    /\ Len(h.dbStatements)
          = Len(PlanOf(h.ai)) + CountIn(h.images, LAMBDA o : o.ok)
    /\ \A s \in Skus :
          LinesOf("supplierFail", s)
             = Cardinality({j \in h.abandoned : h.page[j].sku = s})
    /\ (h.pc \in {"commit", "done"} /\ h.page # <<>>)
       => RowsWithSku(h.page) = h.abandoned \cup Classified

\* an invocation has reported after it gave up one row and classified and
\* committed a later one
C13_Witness ==
    /\ Reported
    /\ \E j \in h.abandoned : \E k \in 1..Len(h.ai) :
          /\ h.ai[k].i > j
          /\ HasKey(db, "Products", <<h.ai[k].sku>>)
          /\ ~HasKey(db, "Products", <<h.page[j].sku>>)

\* C14: when an invocation of the CSV handler ends with an error response
\* (the page could not be read, the commit failed, an exception escaped the
\* row loop), the response carries an error status and every table of the
\* store, Suppliers included, is as it was when the invocation began.
C14_FatalEndLeavesTheStore ==
    (variant = "V15" /\ Finished /\ resp.kind = "error")
    => /\ resp.status \in {404, 500}
       /\ db = h.before

\* C15: while an invocation is under way and its batch has not been sent and
\* answered, every table of the store is as it was when the invocation began.
C15_OnlyTheCommitWrites ==
    h.pc \in {"fetch", "select", "insert", "ai", "image", "commit"}
    => db = h.before

ProductTables == Tables \ {"Suppliers"}

\* the key of every statement of the list is in the store
AllApplied(stmts) ==
    \A n \in 1..Len(stmts) :
        HasKey(db, stmts[n].table, PrimaryKey(stmts[n].table, Resolve(stmts[n].row, 0)))

\* C16: in every state a SKU has a Products row exactly when it has a
\* ProductInventory row, and every row of ProductTags, ProductAudience and
\* ProductImages belongs to a SKU that has both; of the writes planned by the
\* invocation in hand either all are in the store (the batch was committed)
\* or the five product tables are as they were when the invocation began.
C16_NoPartialRow ==
    /\ \A s \in Skus :
          HasKey(db, "Products", <<s>>) <=> HasKey(db, "ProductInventory", <<s>>)
    /\ \A t \in ProductTables : \A n \in 1..Len(db[t]) :
          HasKey(db, "Products", <<db[t][n].sku>>)
    /\ IF h.committed # <<>>
       THEN h.committed = h.dbStatements /\ AllApplied(h.dbStatements)
       ELSE \A t \in ProductTables : db[t] = h.before[t]

\* a CSV batch with writes for all five product tables has been committed
\* on top of an earlier page
C16_Witness ==
    /\ variant = "V15"
    /\ Reported
    /\ h.cursor = 2
    /\ h.committed # <<>>
    /\ {h.committed[k].table : k \in 1..Len(h.committed)} = ProductTables
    /\ \E t \in ProductTables : db[t] # h.before[t]

Warnings == CountIn(h.importLog, LAMBDA l : l.type = "warning")

\* C17: an invocation calls DB.batch at most once; when the row loop of a
\* non-empty page is over, a non-empty write list has been sent whole in one
\* call and no warning is logged, while an empty list has been sent in no
\* call, the warning is the last line of the log and the page is reported.
C17_OneCommitOrAWarning ==
    /\ Len(h.sent) <= 1
    /\ h.committed # <<>> => h.sent = <<h.committed>>
    /\ (h.pc \in {"commit", "done"} /\ h.page # <<>>)
       => IF h.dbStatements # <<>>
          THEN h.sent = <<h.dbStatements>> /\ Warnings = 0
          ELSE /\ h.sent = <<>>
               /\ Warnings = 1
               /\ h.importLog[Len(h.importLog)].type = "warning"
               /\ Reported
               /\ resp.logs = h.importLog
               /\ db = h.before

\* a page whose rows were all skipped or given up has been reported with the
\* warning and without a commit
C17_Witness ==
    /\ Reported
    /\ h.sent = <<>>
    /\ Warnings = 1
    /\ h.abandoned # {}
    /\ \E j \in 1..Len(h.page) : h.page[j].sku = ""

\* C18: an invocation whose page has no rows answers at once that the import
\* is complete, with processed = 0 and no next cursor; it has called neither
\* the classifier nor ensureSupplierExists, fetched no image, sent no batch
\* and left the store as it was; on the first call and on a later one.
C18_EmptyPageCompletesAtOnce ==
    (h.pc \notin {"idle", "fetch"} /\ ~h.faulted /\ h.page = <<>>)
    => /\ Finished
       /\ resp.kind = "complete"
       /\ resp.status = 200
       /\ resp.processed = 0
       /\ resp.next = NoCursor
       /\ h.ai = <<>>
       /\ h.ensured = {}
       /\ h.images = <<>>
       /\ h.sent = <<>>
       /\ h.importLog = <<>>
       /\ db = h.before

\* the second call of the CSV endpoint, one page past the end of a file whose
\* first page the first call has imported
C18_Witness ==
    /\ variant = "V15"
    /\ hist.calls = 2
    /\ hist.prev.kind = "report"
    /\ Len(source) > 0
    /\ db["Products"] # <<>>
    /\ h.page = <<>>
    /\ resp.kind = "complete"

TableRank(table) ==
    CASE table = "Products"         -> 1
      [] table = "ProductInventory" -> 2
      [] table = "ProductTags"      -> 3
      [] table = "ProductAudience"  -> 4
      [] table = "ProductImages"    -> 5

\* the rows of the uploaded images of page row i, in the order of the uploads
UploadedOf(i) ==
    LET os == SelectSeq(h.images, LAMBDA o : o.i = i /\ o.ok)
    IN  [k \in 1..Len(os) |->
            ImageStmt(os[k].sku, os[k].r2Key, IF os[k].n = 1 THEN 1 ELSE 0)]

\* the writes of the k-th classified row: the planner's, then the images'
RowWrites(k) ==
    PlanRow(variant, h.page[h.ai[k].i], h.ai[k].sku,
            SupplierOf(h.page[h.ai[k].i]), h.ai[k].tags)
    \o UploadedOf(h.ai[k].i)

RECURSIVE WritesUpTo(_)
WritesUpTo(k) == IF k = 0 THEN <<>> ELSE WritesUpTo(k - 1) \o RowWrites(k)

\* C19: the write list is the concatenation, in source order of the rows, of
\* each classified row's writes; within a row the writes go Products,
\* ProductInventory, ProductTags, ProductAudience, ProductImages; and the
\* committed list is that list.
C19_WritesInRowAndTableOrder ==
    /\ \A k \in 1..(Len(h.ai) - 1) : h.ai[k].i < h.ai[k + 1].i
    /\ h.dbStatements = WritesUpTo(Len(h.ai))
    /\ \A k \in 1..Len(h.ai) :
          LET ws == RowWrites(k)
          IN  /\ ws[1].table = "Products"
              /\ ws[2].table = "ProductInventory"
              /\ \A a \in 1..(Len(ws) - 1) :
                    TableRank(ws[a].table) <= TableRank(ws[a + 1].table)
    /\ h.committed # <<>> => h.committed = h.dbStatements

\* a CSV page of two classified rows, with writes for all five tables, has
\* been committed
C19_Witness ==
    /\ variant = "V15"
    /\ Reported
    /\ Len(h.ai) >= 2
    /\ h.committed # <<>>
    /\ {TableRank(RowWrites(1)[a].table) : a \in 1..Len(RowWrites(1))} = 1..5

WritesTo(stmts, table) == SelectSeq(stmts, LAMBDA st : st.table = table)

\* C20: the planner called with a row and a tag array returns exactly one
\* Products and one ProductInventory write, one ProductTags write carrying
\* the category when the category is non-empty and none otherwise, and one
\* ProductAudience write for each non-empty element of the array, in the
\* order of the array (none for an array without non-empty elements); every
\* write carries the SKU.
C20_PlannerEmitsTheRowsWrites ==
    h.pc = "planned"
    => LET st   == h.dbStatements
           row  == h.page[1]
           tags == SelectSeq(h.ai[1].tags, LAMBDA t : t # "")
       IN  /\ Len(WritesTo(st, "Products")) = 1
           /\ Len(WritesTo(st, "ProductInventory")) = 1
           /\ Len(WritesTo(st, "ProductTags")) = (IF row.category # "" THEN 1 ELSE 0)
           /\ \A n \in 1..Len(WritesTo(st, "ProductTags")) :
                 WritesTo(st, "ProductTags")[n].row.tag = row.category
           /\ Len(WritesTo(st, "ProductAudience")) = Len(tags)
           /\ \A n \in 1..Len(tags) :
                 WritesTo(st, "ProductAudience")[n].row.audience_tag = tags[n]
           /\ WritesTo(st, "ProductImages") = <<>>
           /\ WritesTo(st, "Suppliers") = <<>>
           /\ \A n \in 1..Len(st) : st[n].row.sku = row.sku

\* planner v16 has been called with a row without category and an array that
\* holds an empty tag before a real one
C20_Witness ==
    /\ h.pc = "planned"
    /\ variant = "V18"
    /\ h.page[1].category = ""
    /\ h.ai[1].tags = <<"", "Cat">>
    /\ Len(h.dbStatements) = 3

CallsFor(i) == CountIn(h.ai, LAMBDA e : e.i = i)

\* C21: in an invocation the text service is called at most once for a row,
\* a call that threw included, and never for a row without a SKU or a row
\* given up for its supplier; once the row loop is over it has been called
\* exactly once for every other row of the page.
C21_OneClassifierCallPerRow ==
    /\ \A i \in 1..Len(h.page) :
          /\ CallsFor(i) <= 1
          /\ (h.page[i].sku = "" \/ i \in h.abandoned) => CallsFor(i) = 0
    /\ \A k \in 1..Len(h.ai) : h.ai[k].i \in h.ensured
    /\ (h.pc \in {"commit", "done"} /\ h.page # <<>>)
       => \A i \in RowsWithSku(h.page) \ h.abandoned : CallsFor(i) = 1

\* a page with a row without a SKU has been reported after the call for one
\* row threw and the call for another answered
C21_Witness ==
    /\ Reported
    /\ \E i \in 1..Len(h.page) : h.page[i].sku = ""
    /\ \E a, b \in 1..Len(h.ai) : h.ai[a].answer.threw /\ ~h.ai[b].answer.threw
    /\ Len(h.ai) = 2

\* C22: in the background import, while the classifier call of a row is in
\* flight no upload started for an earlier row of the same invocation is
\* still pending.
C22_RowsOneAfterTheOther ==
    \A u \in uploads :
        (u.state = "pending" /\ u.at = clock)
        => ~(h.pc = "ai" /\ h.i > u.i)

\* C23: in the background import the supplier of every Products write of the
\* batch in hand, and of every Products row of the store, is in Suppliers.
C23_SupplierExistsBeforeTheWrites ==
    /\ \A n \in 1..Len(h.dbStatements) :
          h.dbStatements[n].table = "Products"
          => SupplierFound(db, h.dbStatements[n].row.supplier_id)
    /\ \A n \in 1..Len(db["Products"]) :
          SupplierFound(db, db["Products"][n].supplier_id)

RowSet(d, t) == {d[t][n] : n \in 1..Len(d[t])}

\* the store after a whole invocation over the page, run on its own
Invocation(d, page, now) ==
    Batch(EnsureRows(d, page, 1, now), NominalPlan(page, 1), now).db

\* a second invocation over the same page ran alongside the one that reported
BothDone ==
    /\ variant = "V15" /\ Reported /\ faults = 0
    /\ peer.pc = "done" /\ peer.at = clock /\ peer.cursor = h.cursor

\* C24: when an invocation of the CSV handler has reported and a second
\* invocation over the same page ran alongside it (the text service
\* answering both as asked), every table holds the rows it holds after the
\* two invocations run one after the other, and every row with a SKU of the
\* page has its Products row.
C24_ConcurrentRunsAreHarmless ==
    BothDone
    => LET seq == Invocation(Invocation(h.before, h.page, clock), h.page, clock)
       IN  /\ \A t \in Tables : RowSet(db, t) = RowSet(seq, t)
           /\ \A i \in RowsWithSku(h.page) :
                 HasKey(db, "Products", <<h.page[i].sku>>)

\* the call in hand re-issues the first call of the run, which ended with an
\* error, and has reported without giving up a row
Reissued ==
    /\ Reported
    /\ ui.clicks = 2 /\ hist.calls = 1
    /\ hist.prev.kind = "error" /\ hist.prev.cursor = h.cursor
    /\ h.abandoned = {}

\* C25: an invocation reads the source at most once and sends at most one
\* batch, and one that ends with an error has committed nothing; when the
\* first call on an empty store ended with an error and the same call is
\* issued again and reports, every table holds the rows a single invocation
\* with the same writes leaves on the empty store (timestamps being those of
\* the call that committed).
C25_ReissueAfterAFatalFailure ==
    /\ hist.pages <= hist.calls
    /\ Len(h.sent) <= 1
    /\ (Finished /\ resp.kind = "error") => h.committed = <<>>
    /\ Reissued
       => LET single == Batch(EnsureRows(EmptyDb, h.page, 1, clock),
                              h.committed, clock).db
          IN  \A t \in Tables : RowSet(db, t) = RowSet(single, t)

\* the first call left a Suppliers row behind when its commit failed, and
\* the second call has committed the page
C25_Witness ==
    /\ Reissued
    /\ hist.prev.faulted
    /\ h.before # EmptyDb
    /\ h.committed # <<>>

\* C30: with two invocations under way and no call to the store failing on its
\* own, neither invocation gives up a row and Suppliers holds one row for each
\* supplier id.
C30_SupplierGuardIsAtomic ==
    (peer.ran /\ peer.at = clock /\ faults = 0)
    => /\ h.abandoned = {}
       /\ peer.abandoned = {}
       /\ \A m, n \in 1..Len(db["Suppliers"]) :
             db["Suppliers"][m].supplier_id = db["Suppliers"][n].supplier_id => m = n

\* the place, counted from 1, that the n-th image with a URL has in the cell
SourcePosition(cell, n) ==
    CHOOSE p \in 1..Len(cell) :
        cell[p] # "" /\ Cardinality({q \in 1..p : cell[q] # ""}) = n

\* C26: every image the handler has attempted has the blob key
\* supplierId/sku/image-(p+1).jpg, p being the 0-based place of the image in
\* the row's image cell, and an uploaded one has its ProductImages write in
\* the batch with that key and is_primary = 1 exactly when p = 0.
C26_KeysFollowSourcePosition ==
    \A k \in 1..Len(h.images) :
        LET o   == h.images[k]
            row == h.page[o.i]
            p   == SourcePosition(row.images, o.n) - 1
            key == R2Key(SupplierOf(row), o.sku, p)
        IN  /\ o.r2Key = key
            /\ o.ok => \E n \in 1..Len(h.dbStatements) :
                          h.dbStatements[n] =
                              ImageStmt(o.sku, key, IF p = 0 THEN 1 ELSE 0)

\* C27: no step deletes or changes a row of Suppliers, Products,
\* ProductInventory, ProductTags, ProductAudience or ProductImages: every
\* table keeps the rows it has, with their values, and only gains rows at its
\* end; also when a source row brings other values for a key the table holds.
C27_RowsOnlyGrow ==
    [][\A t \in Tables :
          /\ Len(db'[t]) >= Len(db[t])
          /\ \A n \in 1..Len(db[t]) : db'[t][n] = db[t][n]]_vars

\* a committed page carried a Products write and a ProductInventory write for
\* a SKU the store holds with other values
C27_Witness ==
    /\ Reported
    /\ \E n \in 1..Len(h.committed), m \in 1..Len(db["Products"]) :
          /\ h.committed[n].table = "Products"
          /\ db["Products"][m].sku = h.committed[n].row.sku
          /\ db["Products"][m] # h.committed[n].row
    /\ \E n \in 1..Len(h.committed), m \in 1..Len(db["ProductInventory"]) :
          /\ h.committed[n].table = "ProductInventory"
          /\ db["ProductInventory"][m].sku = h.committed[n].row.sku
          /\ db["ProductInventory"][m].available_good # h.committed[n].row.available_good

\* the amount a price text stands for: its digits, a currency sign and
\* thousands separators left aside; 0 when the text is no such number
AmountOf(cs) ==
    LET ds == SelectSeq(cs, LAMBDA c : c \notin {"$", ","})
    IN  IF ds # <<>> /\ \A n \in 1..Len(ds) : ds[n] \in Digits
        THEN DecimalValue(ds, 0) ELSE 0

\* C28: the Products write the planner makes for a row carries weight 0 when
\* the weight text holds no number, and as msrp the amount the price text
\* stands for ("$1,200" is 1200), 0 when the text is missing or no number.
C28_NumbersAreNormalized ==
    \A n \in 1..Len(h.dbStatements) :
        h.dbStatements[n].table = "Products"
        => LET row == h.page[h.i]
               w   == h.dbStatements[n].row
           IN  /\ (\A k \in 1..Len(row.weight) : row.weight[k] \notin Digits)
                  => w.weight_g = [whole |-> 0, frac |-> <<>>]
               /\ w.msrp = AmountOf(row.msrp)

\* C29: in the records-API handler, an invocation whose request lacks
\* table_id or supplier_id ends with status 400 and has read no page, ensured
\* no supplier, called no classifier, attempted no image, sent no batch and
\* left the store as it was; an invocation that has both plans its Products
\* writes, names its blobs and creates its Suppliers rows with the supplier id
\* of the request.
C29_ParametersComeFromTheCaller ==
    (variant = "V18" /\ h.pc # "idle")
    => IF tableArg = "" \/ supplierArg = ""
       THEN /\ h.pc \in {"fetch", "done"}
            /\ Finished => (resp.kind = "error" /\ resp.status = 400)
            /\ h.page = <<>> /\ h.ensured = {} /\ h.ai = <<>> /\ h.images = <<>>
            /\ h.dbStatements = <<>> /\ h.sent = <<>>
            /\ db = h.before
       ELSE /\ \A n \in 1..Len(h.dbStatements) :
                  h.dbStatements[n].table = "Products"
                  => h.dbStatements[n].row.supplier_id = supplierArg
            /\ \A k \in 1..Len(h.images) :
                  h.images[k].r2Key = R2Key(supplierArg, h.images[k].sku, h.images[k].n - 1)
            /\ \A n \in 1..Len(db["Suppliers"]) :
                  n > Len(h.before["Suppliers"])
                  => db["Suppliers"][n].supplier_id = supplierArg

\* a request without supplier_id has been answered 400 after an earlier one,
\* with both parameters, had created its supplier and uploaded an image
C29_Witness ==
    /\ variant = "V18" /\ Finished
    /\ tableArg # "" /\ supplierArg = ""
    /\ resp.status = 400
    /\ db["Suppliers"] # <<>>
    /\ bucket # {}

\* the background invocation in hand ended in its catch or on a missing file
BgFailed ==
    \/ h.faulted
    \/ h.pc # "commit" /\ h.sent # <<>> /\ h.committed = <<>>

\* the invocations a chain over the whole file takes
ChainLength == Max(1, CeilDiv(Len(source), BATCH_SIZE))

BatchStart(b) == (b - 1) * BATCH_SIZE + 1

\* C32: in the background import, once an invocation has failed (no file, a
\* read or parse error, a rejected or failed commit) its handler does nothing
\* more and no request follows it until the import is started again; it has
\* written nothing, it is the only run of its batch, no row of a later batch
\* has been read, and in a first import no row of its batch or of a later
\* one has a Products row unless an earlier batch held the same SKU.
C32_FailedBatchEndsTheChain ==
    /\ [](BgFailed
          => /\ h.pc = "done"
             /\ db = h.before
             /\ hist.calls = h.cursor
             /\ \A j \in 1..Len(source) :
                   /\ j >= BatchStart(h.cursor) => hist.fetched[j] <= 1
                   /\ j >= BatchStart(h.cursor + 1) => hist.fetched[j] = 0
                   /\ (ui.clicks = 1 /\ j >= BatchStart(h.cursor)
                       /\ HasKey(db, "Products", <<source[j].sku>>))
                      => \E k \in 1..(BatchStart(h.cursor) - 1) :
                            source[k].sku = source[j].sku)
    /\ [][BgFailed => (h' = h \/ ui'.clicks = ui.clicks + 1)]_vars

\* the first batch of a longer file has failed at its commit
C32_Witness ==
    /\ BgFailed
    /\ h.cursor = 1
    /\ h.sent # <<>>
    /\ Len(source) > BATCH_SIZE
    /\ \E j \in (BATCH_SIZE + 1)..Len(source) : source[j].sku # ""

\* a request of the importer page is on its way or being served, or its
\* response has not been taken up yet
InFlight == h.pc \notin {"idle", "done"} \/ ui.pc = "await"

\* C33: the start button of the importer page is disabled exactly from the
\* click until the loop has ended in completion or failure; a request is in
\* flight only while the page awaits it; and a request is sent only when none
\* is in flight, the response of the previous one having been taken up.
C33_OneRequestInFlight ==
    /\ [](/\ ui.disabled <=> ui.pc \in {"await", "timer"}
          /\ ui.disabled <=> ui.status = "running"
          /\ InFlight => ui.pc = "await")
    /\ [][clock' # clock
          => /\ ~InFlight
             /\ ui'.pc = "await" /\ ui'.disabled]_vars

\* the second request of a loop is in flight
C33_Witness ==
    /\ InFlight
    /\ h.pc = "ai"
    /\ hist.calls = 2
    /\ ui.disabled

\* the request in hand follows a click made after the request for a later
\* page had failed
RestartedAfterFailure ==
    /\ hist.calls = 1
    /\ hist.prev.kind = "error"
    /\ hist.prev.cursor # (IF variant = "V15" THEN 1 ELSE NoCursor)

\* C34: once a request of the importer page has failed the loop is over: the
\* button is given back and nothing is sent until the next click, whose
\* request asks for the first page (batch 1, no offset) whatever cursor had
\* failed; the rows of that page, imported before the failure, are read again.
C34_FailureRestartsFromTheFirstPage ==
    /\ [](/\ ui.status = "failed"
             => (~InFlight /\ ui.pc = "idle" /\ ~ui.disabled /\ resp.kind = "error")
          /\ (ui.pc = "await" /\ hist.calls = 1)
             => h.cursor = (IF variant = "V15" THEN 1 ELSE NoCursor)
          /\ (RestartedAfterFailure /\ h.pc \notin {"idle", "fetch"} /\ ~h.faulted)
             => /\ h.first = 1
                /\ h.page = PageOf(IF variant = "V15" THEN 1 ELSE NoCursor).page
                /\ \A j \in 1..Len(h.page) : hist.fetched[j] = 1)
    /\ [][(ui.status = "failed" /\ clock' # clock)
          => /\ ui'.clicks = ui.clicks + 1
             /\ hist'.calls = 1
             /\ h'.cursor = (IF variant = "V15" THEN 1 ELSE NoCursor)]_vars

\* after the request for the second page failed, a click has had the first
\* page imported again: its rows were in the store and were classified anew
C34_Witness ==
    /\ RestartedAfterFailure
    /\ Reported
    /\ h.ai # <<>>
    /\ \A k \in 1..Len(h.ai) : HasKey(h.before, "Products", <<h.ai[k].sku>>)

\* the rows of the file at the 0-based indices (b-1)*BATCH_SIZE up to
\* b*BATCH_SIZE - 1
RowsOfBatch(b) ==
    SubSeq(source, Max((b - 1) * BATCH_SIZE + 1, 1), Min(b * BATCH_SIZE, Len(source)))

\* C35: whatever integer the batch parameter of the CSV handler is, an
\* invocation that answers with a report or with completion has
\* 0 <= remaining <= totalProducts and processed + remaining <= totalProducts,
\* and its page is made of the rows of the file at the indices
\* (batch-1)*BATCH_SIZE .. batch*BATCH_SIZE - 1.
C35_CountersForAnyBatch ==
    (variant = "V15" /\ Finished /\ resp.kind \in {"report", "complete"})
    => /\ 0 <= resp.remaining /\ resp.remaining <= h.total
       /\ resp.processed + resp.remaining <= h.total
       /\ h.page = RowsOfBatch(h.cursor)

\* the places of the ProductImages rows of a SKU that are marked primary
PrimaryRows(sku) ==
    {n \in 1..Len(db["ProductImages"]) :
        db["ProductImages"][n].sku = sku /\ db["ProductImages"][n].is_primary = 1}

\* C36: at every moment, for every SKU, at most one ProductImages row of the
\* store is marked primary.
C36_OnePrimaryImagePerSku ==
    \A sku \in Skus : Cardinality(PrimaryRows(sku)) <= 1

\* C37: when an invocation has reported, every SKU for which its batch
\* carried a ProductImages write has a ProductImages row marked primary.
C37_CommittedImagesHaveAPrimary ==
    Reported
    => \A n \in 1..Len(h.committed) :
          h.committed[n].table = "ProductImages"
          => PrimaryRows(h.committed[n].row.sku) # {}

\* C38: when an invocation of the awaited-upload handlers has ended, with a
\* report or with an error, every blob of the bucket has a ProductImages row
\* with its key.
C38_NoBlobWithoutItsRow ==
    Finished
    => \A key \in bucket :
          \E n \in 1..Len(db["ProductImages"]) : db["ProductImages"][n].r2_key = key

====
